---- MODULE Spec2Model ----
(***************************************************************************)
(* Model of the article lifecycle of coder-mind-master                     *)
(* (src/api/articles/articles.js): the Article collection, the request     *)
(* handlers remove, changeState, changeStates, save, saveImage and         *)
(* removeImage, and the helpers they call.                                 *)
(***************************************************************************)
EXTENDS Integers, Sequences, FiniteSets

(***************************************************************************)
(* Bounds of the model.                                                    *)
(***************************************************************************)
\* Articles in the collection of the single-article specifications.
NumArticles == 1
\* Articles in the collection of the changeStates specifications.
BulkArticles == 2
\* Longest articlesId array a changeStates request carries.
MaxIds == 2
\* Articles (all of one author) in the boost-quota specification.
QuotaArticles == 3
\* Last instant of the clock in the specification with a running clock.
MaxNow == 2
\* changeStates requests in flight at once in the interleaved specification.
MaxPending == 1

(***************************************************************************)
(* JavaScript values.  An id travels as a string in the request            *)
(* (user._id, req.params.id) and is stored as an ObjectId in a document.   *)
(***************************************************************************)
Str(s) == [type |-> "string", val |-> s]
ObjectId(s) == [type |-> "object", val |-> s.val]
ToString(o) == [type |-> "string", val |-> o.val]
\* a === b: two primitives of the same type and value; an object is only
\* identical to itself, and no request value is the stored object.
StrictEquals(a, b) == a.type = "string" /\ b.type = "string" /\ a.val = b.val
\* A query filter { field: v }: mongoose casts v to the field's type and the
\* store compares values.
FilterMatches(stored, v) == stored.val = v.val

(***************************************************************************)
(* Users: req.user.user, the identity the request carries.                 *)
(***************************************************************************)
UserIds == {"u1", "u2", "adm"}
User(uid) ==
  [_id |-> Str(uid), tagAdmin |-> (uid = "adm"), tagAuthor |-> (uid # "adm")]
Users == {User(uid) : uid \in UserIds}

(***************************************************************************)
(* Articles.  A timestamp of 0 is an unset field; an image of "" is an     *)
(* unset (null) image reference.                                           *)
(***************************************************************************)
States == {"draft", "published", "inactivated", "boosted", "removed"}
\* The values of req.query.state / req.body.state that the handlers see:
\* the wanted states, removed, and draft, which no handler accepts.
StateInputs == States
Unset == 0
\* A malformed id: ObjectId.isValid(id) is false.
Malformed == 0
ImageTypes == {"logo", "secondary", "header"}
Locations == {"urlA", "urlB"}

\* A title or customUri is a sequence of characters; articleData.defaultUri() gives
\* the generated one.
DefaultUri == <<"d">>

\* A themeId or categoryId that is not set (null, falsy).
NoRef == ""

\* .first() of a select that found no row of comment_settings.
NoRow == [f \in {} |-> f]

NewArticle(title, uid) ==
  [title |-> title, userId |-> ObjectId(Str(uid)), state |-> "draft",
   publishedAt |-> Unset, boostedAt |-> Unset, inactivatedAt |-> Unset,
   removedAt |-> Unset, customUri |-> DefaultUri,
   logoImg |-> "", secondaryImg |-> "", headerImg |-> "",
   themeId |-> NoRef, categoryId |-> NoRef]

VARIABLES
  articles,   \* the Article collection: id -> document
  now,        \* the clock read by MyDate.setTimeZone
  last,       \* the last completed request and its response
  pending,    \* requests between two of their awaits
  comments,   \* the Comment collection: id -> document
  outbox,     \* the payloads handed to sendEmail, in order
  settings,   \* the comment_settings table: its rows, in order
  stats       \* the comments table of the statistics: its rows, in order

vars == <<articles, now, last, pending, comments, outbox, settings, stats>>

Ids == DOMAIN articles
\* An id that is well formed and names no document.
MissingId == Cardinality(Ids) + 1
ReqIds == Ids \cup {MissingId}

\* A request or response with no body.
NoBody == [f \in {} |-> f]

\* The request just served and its response.  again: the request before it
\* was the same request and succeeded.  body: what else the request
\* carried (save, create, get) and the response returned (get).
Response(op, uid, id, state, ids, result) ==
  [op |-> op, user |-> uid, id |-> id, state |-> state, ids |-> ids,
   result |-> result,
   again |-> /\ last.op = op /\ last.user = uid /\ last.id = id
             /\ last.state = state /\ last.ids = ids /\ last.result = "ok",
   body |-> NoBody]

ResponseWith(op, uid, id, body, result) ==
  [Response(op, uid, id, "none", <<>>, result) EXCEPT !.body = body]

FindOne(arts, id) == IF id \in DOMAIN arts THEN <<arts[id]>> ELSE <<>>

\* Article.countDocuments({ userId, state: 'boosted' })
CountBoosted(arts, userId) ==
  Cardinality({i \in DOMAIN arts :
                 FilterMatches(arts[i].userId, userId) /\ arts[i].state = "boosted"})

\* Article.updateOne({ _id: id }, update): the fields of update replace the
\* document's, the others stay; no document with that id, no change.
UpdateOne(arts, id, update) ==
  IF id \in DOMAIN arts
    THEN [arts EXCEPT ![id] =
            [f \in DOMAIN arts[id] |->
               IF f \in DOMAIN update THEN update[f] ELSE arts[id][f]]]
    ELSE arts

(***************************************************************************)
(* remove (DELETE /articles/:id)                                           *)
(***************************************************************************)
RemoveResult(arts, id, user) ==
  LET found == FindOne(arts, id) IN
  IF found = <<>> THEN "notFound"
  ELSE LET article == found[1] IN
    IF ~user.tagAdmin /\ ~StrictEquals(user._id, article.userId) THEN "forbidden"
    ELSE IF article.state = "removed" THEN "alreadyRemoved"
    ELSE "ok"

RemoveUpdate(t) ==
  [state |-> "removed", removedAt |-> t, customUri |-> DefaultUri]

\* remove with its update made before the check of the user.
RemoveBeforeCheck(id, user) ==
  LET r == RemoveResult(articles, id, user) IN
  /\ articles' = IF r \in {"ok", "forbidden"}
                   THEN UpdateOne(articles, id, RemoveUpdate(now))
                   ELSE articles
  /\ last' = Response("remove", user._id.val, id, "removed", <<>>, r)
  /\ UNCHANGED <<now, pending, comments, outbox, settings, stats>>

Remove(id, user) ==
  LET r == RemoveResult(articles, id, user) IN
  /\ articles' = IF r = "ok" THEN UpdateOne(articles, id, RemoveUpdate(now))
                             ELSE articles
  /\ last' = Response("remove", user._id.val, id, "removed", <<>>, r)
  /\ UNCHANGED <<now, pending, comments, outbox, settings, stats>>

(***************************************************************************)
(* changeState (PATCH /articles/:id?state=)                                *)
(***************************************************************************)
\* checkValidStates(state, includingRemove): TRUE when it does not throw.
CheckValidStates(state, includingRemove) ==
  state \in ({"boosted", "inactivated", "published"}
               \cup (IF includingRemove THEN {"removed"} ELSE {}))

\* validateState without the same-state check.
ValidateStateNoSameState(arts, id, user, state) ==
  IF state = "removed" THEN "useDelete"
  ELSE IF ~CheckValidStates(state, FALSE) THEN "invalidState"
  ELSE LET found == FindOne(arts, id) IN
    IF found = <<>> THEN "notFound"
    ELSE LET article == found[1] IN
      IF ~user.tagAdmin /\ ~StrictEquals(user._id, ToString(article.userId))
        THEN "forbidden"
      ELSE IF user.tagAuthor /\ CountBoosted(arts, user._id) > 1
        THEN "boostLimit"
      ELSE "ok"

ValidateState(arts, id, user, state) ==
  IF state = "removed" THEN "useDelete"
  ELSE IF ~CheckValidStates(state, FALSE) THEN "invalidState"
  ELSE LET found == FindOne(arts, id) IN
    IF found = <<>> THEN "notFound"
    ELSE LET article == found[1] IN
      IF ~user.tagAdmin /\ ~StrictEquals(user._id, ToString(article.userId))
        THEN "forbidden"
      ELSE IF article.state = state THEN "sameState"
      ELSE IF user.tagAuthor /\ CountBoosted(arts, user._id) > 1
        THEN "boostLimit"
      ELSE "ok"

\* `${state}At`
StateTimestamp(state) ==
  CASE state = "published" -> "publishedAt"
    [] state = "boosted" -> "boostedAt"
    [] state = "inactivated" -> "inactivatedAt"
    [] state = "removed" -> "removedAt"

\* { state, [stateTimestamp]: !article[stateTimestamp] ? now : article[stateTimestamp] }
ChangeStateUpdate(article, state, t) ==
  LET ts == StateTimestamp(state) IN
  [f \in {"state", ts} |->
     IF f = "state" THEN state
     ELSE IF article[ts] = Unset THEN t ELSE article[ts]]

ChangeState(id, user, state) ==
  LET r == ValidateState(articles, id, user, state) IN
  /\ articles' = IF r = "ok"
                   THEN UpdateOne(articles, id,
                                  ChangeStateUpdate(articles[id], state, now))
                   ELSE articles
  /\ last' = Response("changeState", user._id.val, id, state, <<>>, r)
  /\ UNCHANGED <<now, pending, comments, outbox, settings, stats>>

(***************************************************************************)
(* The clock advances between requests.                                    *)
(***************************************************************************)
Tick ==
  /\ now < MaxNow
  /\ now' = now + 1
  /\ UNCHANGED <<articles, last, pending, comments, outbox, settings, stats>>

(***************************************************************************)
(* Specifications.  The collection holds articles created by create():     *)
(* drafts with no timestamp, each owned by a user.                         *)
(***************************************************************************)
NoRequest ==
  [op |-> "none", user |-> "none", id |-> 0, state |-> "none", ids |-> <<>>,
   result |-> "none", again |-> FALSE, body |-> NoBody]

\* The first article is u2's, the others are u1's.
Owner == [i \in Nat |-> IF i = 1 THEN "u2" ELSE "u1"]

\* The articles 1..n as create() leaves them.
Created(n, owners) == [i \in 1..n |-> NewArticle(<<"t">>, owners[i])]

InitWith(created) ==
  /\ articles = created
  /\ now = 1
  /\ last = NoRequest
  /\ pending = {}
  /\ comments = <<>>
  /\ outbox = <<>>
  /\ settings = <<>>
  /\ stats = <<>>

Init == InitWith(Created(NumArticles, Owner))

\* No request is being answered.
Idle == last = NoRequest

\* The response has been sent: the record of the request is discarded.
Forget ==
  /\ ~Idle
  /\ last' = NoRequest
  /\ UNCHANGED <<articles, now, pending, comments, outbox, settings, stats>>

Next ==
  \/ \E id \in ReqIds, user \in Users, state \in StateInputs :
       ChangeState(id, user, state)
  \/ \E id \in ReqIds, user \in Users : Remove(id, user)

Spec == Init /\ [][Next]_vars

(***************************************************************************)
(* changeStates (PATCH /articles with { state, articlesId })               *)
(***************************************************************************)
\* req.body.articlesId: an array of ids, or a value that is no array.
NotArray == [isArray |-> FALSE, items |-> <<>>]
Array(items) == [isArray |-> TRUE, items |-> items]

\* ObjectId.isValid(id)
IsValid(id) == id # Malformed

\* The switch with a removed case that takes every article not yet removed.
OriginStatesRemoveAny(state) ==
  CASE state = "published" -> {"inactivated", "draft"}
    [] state = "boosted" -> {"published"}
    [] state = "inactivated" -> {"published", "boosted"}
    [] state = "removed" -> {"draft", "published", "inactivated", "boosted"}
    [] OTHER -> {}

\* The switch of checkArticlesForMultipleChanges: the states an article may
\* be in to be moved to the wanted state.
OriginStates(state) ==
  CASE state = "published" -> {"inactivated", "draft"}
    [] state = "boosted" -> {"published"}
    [] state = "inactivated" -> {"published", "boosted"}
    [] state = "removed" -> {"draft"}
    [] OTHER -> {}

\* Article.find({ _id: { $in: articlesId } }) filtered by the switch, mapped
\* to the ids.
ArticlesToChange(arts, items, state) ==
  {i \in DOMAIN arts :
     /\ \E k \in DOMAIN items : items[k] = i
     /\ arts[i].state \in OriginStates(state)}

CheckArticlesForMultipleChanges(arts, user, articlesId, state) ==
  IF ~CheckValidStates(state, TRUE) THEN "invalidState"
  ELSE IF ~articlesId.isArray THEN "notArray"
  ELSE IF Len(articlesId.items) = 0 THEN "emptyIds"
  ELSE IF \E k \in DOMAIN articlesId.items : ~IsValid(articlesId.items[k])
    THEN "invalidId"
  ELSE IF /\ ~user.tagAdmin
          /\ state = "boosted"
          /\ \/ CountBoosted(arts, ObjectId(user._id)) >= 1
             \/ Len(articlesId.items) > 1
    THEN "boostLimit"
  ELSE "ok"

\* updateMany without the userId condition of its filter.
UpdateManyAnyOwner(arts, articlesToChange, userId, state) ==
  [i \in DOMAIN arts |->
     IF i \in articlesToChange
       THEN [arts[i] EXCEPT !.state = state]
       ELSE arts[i]]

\* Article.updateMany({ _id: { $in: articlesToChange }, userId }, { state })
UpdateMany(arts, articlesToChange, userId, state) ==
  [i \in DOMAIN arts |->
     IF i \in articlesToChange /\ FilterMatches(arts[i].userId, userId)
       THEN [arts[i] EXCEPT !.state = state]
       ELSE arts[i]]

\* The request served with no other request between its read and its write.
ChangeStates(user, articlesId, state) ==
  LET r == CheckArticlesForMultipleChanges(articles, user, articlesId, state) IN
  /\ articles' = IF r = "ok"
                   THEN UpdateMany(articles,
                                   ArticlesToChange(articles, articlesId.items, state),
                                   ObjectId(user._id), state)
                   ELSE articles
  /\ last' = Response("changeStates", user._id.val, 0, state, articlesId.items, r)
  /\ UNCHANGED <<now, pending, comments, outbox, settings, stats>>

\* The arrays of ids a request may carry: every set of well-formed ids in
\* increasing order, an id twice, a malformed id alone or after a
\* well-formed one, and the empty array; none longer than MaxIds.
RECURSIVE SetToSeq(_)
SetToSeq(S) ==
  IF S = {} THEN <<>>
  ELSE LET m == CHOOSE x \in S : \A y \in S : x <= y
       IN <<m>> \o SetToSeq(S \ {m})

IdArrays(ids) ==
  {a \in ({SetToSeq(S) : S \in SUBSET ids}
            \cup {<<i, i>> : i \in ids}
            \cup {<<Malformed>>}
            \cup {<<i, Malformed>> : i \in ids}) : Len(a) <= MaxIds}

ArticlesIdInputs(ids) == {NotArray} \cup {Array(a) : a \in IdArrays(ids)}

InitBulk == InitWith(Created(BulkArticles, Owner))

NextBulk ==
  \/ /\ Idle
     /\ \E user \in Users, articlesId \in ArticlesIdInputs(ReqIds),
           state \in StateInputs :
          ChangeStates(user, articlesId, state)
  \/ Forget

SpecBulk == InitBulk /\ [][NextBulk]_vars

(***************************************************************************)
(* save (PUT /articles/:id) and validateFields                             *)
(***************************************************************************)
Has(patch, f) == f \in DOMAIN patch
\* !value for a title or a customUri, which are sequences of characters.
Falsy(v) == v = <<>>

\* customUri.replace(/ /g, '')
RemoveSpaces(uri) == SelectSeq(uri, LAMBDA c : c # " ")

\* The Theme and Category collections: id -> document.
Themes ==
  [t \in {"t1", "t2", "t3"} |-> [state |-> IF t = "t3" THEN "inactive" ELSE "active"]]

Categories ==
  [c \in {"c1", "c2", "c3", "c4"} |->
     [themeId |-> CASE c = "c1" -> "t1" [] c = "c2" -> "t2"
                    [] c = "c3" -> "t3" [] c = "c4" -> "t1",
      state |-> IF c = "c4" THEN "inactive" ELSE "active"]]

\* findOne({ _id, state: 'active' }) on either collection
FindActive(coll, id) == id \in DOMAIN coll /\ coll[id].state = "active"

\* The themeId and categoryId checks of validateFields.
ValidateRefsResult(currentArticle, patch) ==
  LET themeId == IF Has(patch, "themeId") THEN patch.themeId ELSE NoRef
      categoryId == IF Has(patch, "categoryId") THEN patch.categoryId ELSE NoRef
  IN
  IF themeId # NoRef /\ ~FindActive(Themes, themeId) THEN "themeNotFound"
  ELSE IF categoryId = NoRef THEN "ok"
  ELSE IF currentArticle.themeId = NoRef /\ themeId = NoRef THEN "themeRequired"
  ELSE IF ~FindActive(Categories, categoryId) THEN "categoryNotFound"
  ELSE IF ~FindActive(Themes, Categories[categoryId].themeId) THEN "categoryThemeInactive"
  ELSE IF themeId # NoRef /\ Categories[categoryId].themeId # themeId THEN "themeMismatch"
  ELSE "ok"

ValidateFieldsResult(arts, patch, id, user) ==
  IF Has(patch, "title") /\ Falsy(patch.title) THEN "titleRequired"
  ELSE IF Has(patch, "customUri") /\ Falsy(patch.customUri) THEN "customUriRequired"
  ELSE LET found == FindOne(arts, id) IN
    \* currentArticle is null: reading currentArticle.userId throws
    IF found = <<>> THEN "internalError"
    ELSE IF ~StrictEquals(user._id, ToString(found[1].userId)) THEN "forbidden"
    ELSE ValidateRefsResult(found[1], patch)

\* The returned patch with the state left in it.
ValidateFieldsKeepState(patch) ==
  [f \in DOMAIN patch \ {"userId", "logoImg", "secondaryImg", "headerImg"} |->
     IF f = "customUri" THEN RemoveSpaces(patch[f]) ELSE patch[f]]

\* The patch as validateFields returns it.
ValidateFields(patch) ==
  [f \in DOMAIN patch \ {"userId", "state", "logoImg", "secondaryImg", "headerImg"} |->
     IF f = "customUri" THEN RemoveSpaces(patch[f]) ELSE patch[f]]

Save(id, user, patch) ==
  LET r == ValidateFieldsResult(articles, patch, id, user) IN
  /\ articles' = IF r = "ok" THEN UpdateOne(articles, id, ValidateFields(patch))
                             ELSE articles
  /\ last' = ResponseWith("save", user._id.val, id, patch, r)
  /\ UNCHANGED <<now, pending, comments, outbox, settings, stats>>

\* The request bodies of save.
Patches ==
  { [title |-> <<"n">>],
    [title |-> <<>>],
    [customUri |-> <<"a", " ", "b">>],
    [customUri |-> <<>>],
    [title |-> <<"n">>, state |-> "published", userId |-> ObjectId(Str("u1"))],
    [logoImg |-> "urlA", secondaryImg |-> "urlB", headerImg |-> ""] }

(***************************************************************************)
(* saveImage and removeImage                                               *)
(***************************************************************************)
\* `${type}Img`
ImgKey(type) ==
  CASE type = "logo" -> "logoImg"
    [] type = "secondary" -> "secondaryImg"
    [] type = "header" -> "headerImg"

ImageTypeInputs == ImageTypes \cup {"cover"}
\* What the upload middleware gives the callback: an error, no file, or the
\* location of the stored file.
Uploads == {"error", "nofile"} \cup Locations

\* keyStatus: getBucketKeyFromUrl(url).status for the previous image.
SaveImageResult(arts, id, type, upload, keyStatus) ==
  IF type \notin ImageTypes THEN "invalidType"
  ELSE LET found == FindOne(arts, id) IN
    IF found = <<>> THEN "notFound"
    ELSE IF upload = "error" THEN "uploadStream"
    ELSE IF upload = "nofile" THEN "imageRequired"
    ELSE IF found[1][ImgKey(type)] # "" /\ ~keyStatus THEN "noResponse"
    ELSE "ok"

SaveImage(id, user, type, upload, keyStatus) ==
  LET r == SaveImageResult(articles, id, type, upload, keyStatus) IN
  /\ articles' = IF r = "ok"
                   THEN UpdateOne(articles, id,
                                  [f \in {ImgKey(type)} |-> upload])
                   ELSE articles
  /\ last' = Response("saveImage", user._id.val, id, type, <<>>, r)
  /\ UNCHANGED <<now, pending, comments, outbox, settings, stats>>

\* deleted: s3.deleteObject called its callback without an error.
RemoveImageResult(arts, id, type, keyStatus, deleted) ==
  IF type \notin ImageTypes THEN "invalidType"
  ELSE LET found == FindOne(arts, id) IN
    IF found = <<>> THEN "notFound"
    ELSE IF found[1][ImgKey(type)] = "" THEN "alreadyRemoved"
    ELSE IF ~keyStatus THEN "invalidUrl"
    ELSE IF ~deleted THEN "removeObject"
    ELSE "ok"

RemoveImage(id, user, type, keyStatus, deleted) ==
  LET r == RemoveImageResult(articles, id, type, keyStatus, deleted) IN
  /\ articles' = IF r = "ok"
                   THEN UpdateOne(articles, id, [f \in {ImgKey(type)} |-> ""])
                   ELSE articles
  /\ last' = Response("removeImage", user._id.val, id, type, <<>>, r)
  /\ UNCHANGED <<now, pending, comments, outbox, settings, stats>>

\* The operations that write an article's fields and images.
NextAccess ==
  \/ /\ Idle
     /\ \E id \in ReqIds, user \in Users, patch \in Patches : Save(id, user, patch)
  \/ /\ Idle
     /\ \E id \in ReqIds, user \in Users, type \in ImageTypeInputs,
           upload \in Uploads, keyStatus \in BOOLEAN :
          SaveImage(id, user, type, upload, keyStatus)
  \/ /\ Idle
     /\ \E id \in ReqIds, user \in Users, type \in ImageTypeInputs,
           keyStatus \in BOOLEAN, deleted \in BOOLEAN :
          RemoveImage(id, user, type, keyStatus, deleted)
  \/ Forget

SpecAccess == Init /\ [][NextAccess]_vars

(***************************************************************************)
(* The custom URI: save sets it, remove and changeStates remove articles.   *)
(***************************************************************************)
UriPatches == { [customUri |-> <<"a", " ", "b">>], [title |-> <<"n">>] }

NextUri ==
  \/ /\ Idle
     /\ \E id \in ReqIds, user \in Users, patch \in UriPatches : Save(id, user, patch)
  \/ /\ Idle
     /\ \E id \in ReqIds, user \in Users : Remove(id, user)
  \/ /\ Idle
     /\ \E user \in Users, articlesId \in ArticlesIdInputs(ReqIds),
           state \in StateInputs :
          ChangeStates(user, articlesId, state)
  \/ Forget

SpecUri == Init /\ [][NextUri]_vars

(***************************************************************************)
(* The theme and the category of an article, set by save.                  *)
(***************************************************************************)
ThemeInputs == DOMAIN Themes \cup {NoRef}
CategoryInputs == DOMAIN Categories \cup {NoRef}

RefPatches ==
  {[themeId |-> t] : t \in ThemeInputs}
    \cup {[categoryId |-> c] : c \in CategoryInputs}
    \cup {[themeId |-> t, categoryId |-> c] : t \in ThemeInputs, c \in CategoryInputs}

NextRefs ==
  \/ /\ Idle
     /\ \E id \in ReqIds, user \in Users, patch \in RefPatches : Save(id, user, patch)
  \/ Forget

SpecRefs == Init /\ [][NextRefs]_vars

(***************************************************************************)
(* create (POST /articles), with save changing titles afterwards.          *)
(***************************************************************************)
MaxCreated == 2
MaxTitleLength == 100

\* exists(value, error) of app.config.validation: the value is present and
\* not empty, else the error is thrown.
Exists(body, f) == Has(body, f) /\ ~Falsy(body[f])

\* The checks of create without the one on title.length.
CreateResultNoLength(body) ==
  IF ~Exists(body, "title") THEN "titleRequired" ELSE "ok"

CreateResult(body) ==
  IF ~Exists(body, "title") THEN "titleRequired"
  ELSE IF Len(body.title) > MaxTitleLength THEN "titleTooLong"
  ELSE "ok"

Create(user, body) ==
  LET r == CreateResult(body) IN
  /\ Len(articles) < MaxCreated
  /\ articles' = IF r = "ok"
                   THEN Append(articles, NewArticle(body.title, user._id.val))
                   ELSE articles
  /\ last' = ResponseWith("create", user._id.val, 0, body, r)
  /\ UNCHANGED <<now, pending, comments, outbox, settings, stats>>

\* A title of n characters.
Title(n) == [i \in 1..n |-> "A"]

TitleInputs == {<<>>, <<"t">>, Title(MaxTitleLength), Title(MaxTitleLength + 1)}

CreateBodies == {NoBody} \cup {[title |-> title] : title \in TitleInputs}

TitlePatches == {[title |-> title] : title \in TitleInputs}

InitCreate == InitWith(Created(0, Owner))

NextCreate ==
  \/ /\ Idle
     /\ \E user \in Users, body \in CreateBodies : Create(user, body)
  \/ /\ Idle
     /\ \E id \in ReqIds, user \in Users, patch \in TitlePatches : Save(id, user, patch)
  \/ Forget

SpecCreate == InitCreate /\ [][NextCreate]_vars

(***************************************************************************)
(* get (GET /articles): the list of articles, filtered and paginated.      *)
(***************************************************************************)
ListArticles == 2
DefaultPage == 1
DefaultLimit == 6
MaxLimit == 100

Digits == <<"0", "1", "2", "3", "4", "5", "6", "7", "8", "9">>
IsDigit(c) == \E d \in DOMAIN Digits : Digits[d] = c
DigitVal(c) == (CHOOSE d \in DOMAIN Digits : Digits[d] = c) - 1

\* The number written by the leading digits of s, after acc.
RECURSIVE LeadingNumber(_, _)
LeadingNumber(s, acc) ==
  IF s = <<>> \/ ~IsDigit(Head(s)) THEN acc
  ELSE LeadingNumber(Tail(s), 10 * acc + DigitVal(Head(s)))

\* parseInt(s) || default: an optional sign, then the leading digits; NaN
\* (no digit, or s undefined, written <<>>) and 0 are falsy.
ParseIntOr(s, default) ==
  LET neg == s # <<>> /\ Head(s) = "-"
      digits == IF s # <<>> /\ Head(s) \in {"-", "+"} THEN Tail(s) ELSE s
      n == LeadingNumber(digits, 0)
  IN IF digits = <<>> \/ ~IsDigit(Head(digits)) THEN default
     ELSE IF n = 0 THEN default
     ELSE IF neg THEN 0 - n ELSE n

EffectivePage(page) ==
  LET p == ParseIntOr(page, DefaultPage) IN IF p < 1 THEN 1 ELSE p

EffectiveLimit(limit) ==
  LET l == ParseIntOr(limit, DefaultLimit) IN IF l > MaxLimit THEN DefaultLimit ELSE l

\* { $regex: query, $options: 'i' } on a field: the query, read as literal
\* characters, occurs in it, letter case ignored.
Lower(c) == IF c = "N" THEN "n" ELSE IF c = "T" THEN "t" ELSE c
RegexMatches(field, query) ==
  \E k \in 0..(Len(field) - Len(query)) :
    \A j \in 1..Len(query) : Lower(field[k + j]) = Lower(query[j])

\* The userId condition with the admin flag ignored.
InScopeAnyUser(a, user, type) ==
  type = "all" \/ FilterMatches(a.userId, ObjectId(user._id))

\* userId: type === 'all' && user.tagAdmin ? { $ne: null } : ObjectId(user._id)
InScope(a, user, type) ==
  IF type = "all" /\ user.tagAdmin THEN TRUE
  ELSE FilterMatches(a.userId, ObjectId(user._id))

\* The $match stage, the same in the count and in the items pipeline.  The
\* documents hold no description and no content, which match no regex.
Match(a, user, type, filter) ==
  /\ RegexMatches(a.title, filter.query)
  /\ filter.tId # NoRef => a.themeId = filter.tId
  /\ filter.cId # NoRef => a.categoryId = filter.cId
  /\ a.state # "removed"
  /\ InScope(a, user, type)

\* The matching documents sorted by createdAt, which is the order of the
\* ids: ascending for order 'asc', else descending.
RECURSIVE Sorted(_, _, _, _, _, _)
Sorted(arts, user, type, filter, i, acc) ==
  IF i > Len(arts) THEN acc
  ELSE Sorted(arts, user, type, filter, i + 1,
              IF ~Match(arts[i], user, type, filter) THEN acc
              ELSE IF filter.order = "asc" THEN Append(acc, i) ELSE <<i>> \o acc)

\* .skip(skip).limit(limit) with every document to the end of the list
WindowNoLimit(sorted, skip, limit) == SubSeq(sorted, skip + 1, Len(sorted))

\* .skip(skip).limit(limit)
Window(sorted, skip, limit) ==
  SubSeq(sorted, skip + 1,
         IF skip + limit < Len(sorted) THEN skip + limit ELSE Len(sorted))

\* get: the response body { articles, count, limit }, with the query string
\* and the page and skip the handler computed.  MongoDB refuses a $limit
\* that is not positive and a negative $skip: the aggregate throws.
List(user, type, page, limit, filter) ==
  LET effType == IF type = "" THEN "personal" ELSE type
      effPage == EffectivePage(page)
      effLimit == EffectiveLimit(limit)
      skip == effPage * effLimit - effLimit
      sorted == Sorted(articles, user, effType, filter, 1, <<>>)
      ok == effLimit >= 1 /\ skip >= 0
  IN
  /\ last' = ResponseWith("list", user._id.val, 0,
               [type |-> type, pageInput |-> page, limitInput |-> limit,
                filter |-> filter, page |-> effPage, limit |-> effLimit,
                skip |-> skip,
                articles |-> IF ok THEN Window(sorted, skip, effLimit) ELSE <<>>,
                count |-> IF ok THEN Len(sorted) ELSE 0],
               IF ok THEN "ok" ELSE "internalError")
  /\ UNCHANGED <<articles, now, pending, comments, outbox, settings, stats>>

TypeInputs == {"", "all"}
PageInputs == {<<>>, <<"x">>, <<"-", "1">>, <<"1">>, <<"2">>}
LimitInputs ==
  {<<>>, <<"-", "1">>, <<"1">>, <<"2">>, <<"1", "0", "0">>, <<"1", "0", "1">>}
Filters ==
  { [query |-> <<>>, tId |-> NoRef, cId |-> NoRef, order |-> ""],
    [query |-> <<"N">>, tId |-> NoRef, cId |-> NoRef, order |-> "asc"],
    [query |-> <<>>, tId |-> "t1", cId |-> NoRef, order |-> ""],
    [query |-> <<>>, tId |-> NoRef, cId |-> "c1", order |-> ""] }

ListPatches == { [title |-> <<"n">>], [themeId |-> "t1"] }

InitList == InitWith(Created(ListArticles, Owner))

NextList ==
  \/ /\ Idle
     /\ \E user \in Users, type \in TypeInputs, page \in PageInputs,
           limit \in LimitInputs, filter \in Filters :
          List(user, type, page, limit, filter)
  \/ /\ Idle
     /\ \E id \in ReqIds, user \in Users, patch \in ListPatches : Save(id, user, patch)
  \/ /\ Idle
     /\ \E id \in ReqIds, user \in Users : Remove(id, user)
  \/ Forget

SpecList == InitList /\ [][NextList]_vars

(***************************************************************************)
(* changeStates with other requests served between its awaits: the read    *)
(* (countDocuments, find) and the write (updateMany) are separate steps.   *)
(***************************************************************************)
StartChangeStates(user, articlesId, state) ==
  LET r == CheckArticlesForMultipleChanges(articles, user, articlesId, state) IN
  /\ Cardinality(pending) < MaxPending
  /\ IF r = "ok"
       THEN /\ pending' = pending \cup
                 {[user |-> user, state |-> state, items |-> articlesId.items,
                   articlesToChange |->
                     ArticlesToChange(articles, articlesId.items, state)]}
            /\ UNCHANGED last
       ELSE /\ last' = Response("changeStates", user._id.val, 0, state,
                                articlesId.items, r)
            /\ UNCHANGED pending
  /\ UNCHANGED <<articles, now, comments, outbox, settings, stats>>

FinishChangeStates(p) ==
  /\ p \in pending
  /\ articles' = UpdateMany(articles, p.articlesToChange, ObjectId(p.user._id), p.state)
  /\ last' = Response("changeStates", p.user._id.val, 0, p.state, p.items, "ok")
  /\ pending' = pending \ {p}
  /\ UNCHANGED <<now, comments, outbox, settings, stats>>

NextRace ==
  \/ /\ Idle
     /\ \E user \in Users, articlesId \in ArticlesIdInputs(ReqIds),
           state \in StateInputs :
          StartChangeStates(user, articlesId, state)
  \/ /\ Idle
     /\ \E p \in pending : FinishChangeStates(p)
  \/ /\ Idle
     /\ \E id \in ReqIds, user \in Users, state \in StateInputs :
          ChangeState(id, user, state)
  \/ /\ Idle
     /\ \E id \in ReqIds, user \in Users : Remove(id, user)
  \/ Forget

SpecRace == Init /\ [][NextRace]_vars

(***************************************************************************)
(* One author with several articles, and the requests that boost them.     *)
(***************************************************************************)
QuotaOwner == [i \in Nat |-> "u1"]

InitQuota == InitWith(Created(QuotaArticles, QuotaOwner))

NextQuota ==
  \/ /\ Idle
     /\ \E id \in ReqIds, user \in Users, state \in StateInputs :
          ChangeState(id, user, state)
  \/ Forget

SpecQuota == InitQuota /\ [][NextQuota]_vars

(***************************************************************************)
(* The single-article requests with a running clock.                       *)
(***************************************************************************)
NextClock == Next \/ Tick

SpecClock == Init /\ [][NextClock]_vars

(***************************************************************************)
(* Properties                                                              *)
(***************************************************************************)
Timestamps == {"publishedAt", "boostedAt", "inactivatedAt", "removedAt"}
IsAuthorOf(uid, i) == articles[i].userId.val = uid
IsAdmin(uid) == uid \in UserIds /\ User(uid).tagAdmin
\* The step serves a request (the response is new).
Served(op) == last'.op = op /\ last' # last

\* C1: once an article's state is removed, no later changeState,
\* changeStates or remove changes that state.
C1_RemovedIsTerminal ==
  [][\A i \in Ids : articles[i].state = "removed" => articles'[i].state = "removed"]_vars

\* C2: in every reachable state no non-admin author owns more than two
\* boosted articles.
C2_AtMostTwoBoosted ==
  \A uid \in UserIds :
    ~User(uid).tagAdmin => CountBoosted(articles, Str(uid)) <= 2

\* C3: the write of changeStates never changes an article whose state at
\* the moment of the write is outside the origin set of the wanted state.
C3_BulkWriteRespectsOrigin ==
  [][\A p \in pending : pending' = pending \ {p} =>
       \A i \in Ids : articles'[i] # articles[i] =>
         articles[i].state \in OriginStates(p.state)]_vars

\* C4: an article's removedAt is set if and only if its state is removed.
C4_RemovedAtIffRemoved ==
  \A i \in Ids : (articles[i].removedAt # Unset) <=> (articles[i].state = "removed")

\* C5: a changeState request that immediately follows the same successful
\* request fails with the same-state conflict and changes no article.
C5_RepeatIsConflict ==
  [][(/\ last.op = "changeState" /\ last.result = "ok"
      /\ last'.op = "changeState" /\ last'.id = last.id
      /\ last'.user = last.user /\ last'.state = last.state)
       => (last'.result = "sameState" /\ articles' = articles)]_vars

\* C5 witness: the same changeState request was served twice in a row, the
\* first time with success.
C5_Witness ==
  /\ last.op = "changeState" /\ last.again /\ last.result = "sameState"
  /\ articles[last.id].state = last.state

\* C6: a state timestamp that is set keeps its value through every later
\* successful changeState or remove.
C6_TimestampKept ==
  [][\A i \in Ids : \A f \in Timestamps :
       articles[i][f] # Unset => articles'[i][f] = articles[i][f]]_vars

\* C7: changeState answers with the boost-limit conflict only when the
\* acting user is a non-admin author, the wanted state is boosted and that
\* author already has more than one boosted article.
C7_BoostLimitOnlyForBoost ==
  (last.op = "changeState" /\ last.result = "boostLimit") =>
    /\ ~User(last.user).tagAdmin /\ User(last.user).tagAuthor
    /\ last.state = "boosted"
    /\ CountBoosted(articles, Str(last.user)) > 1

\* C8: remove by the non-admin author of an existing article that is not
\* removed succeeds and leaves it removed, and remove answers forbidden
\* only to a user who is neither an admin nor the author.
C8_AuthorRemoves ==
  [][Served("remove") /\ last'.id \in Ids =>
       /\ (/\ ~IsAdmin(last'.user) /\ IsAuthorOf(last'.user, last'.id)
           /\ articles[last'.id].state # "removed")
            => (last'.result = "ok" /\ articles'[last'.id].state = "removed")
       /\ last'.result = "forbidden"
            => (~IsAdmin(last'.user) /\ ~IsAuthorOf(last'.user, last'.id))]_vars

\* C9: no request changes an article on behalf of a user who is neither an
\* admin nor the article's author.
C9_OnlyAdminOrAuthorWrites ==
  [][\A i \in Ids : articles'[i] # articles[i] =>
       (IsAdmin(last'.user) \/ IsAuthorOf(last'.user, i))]_vars

\* C10: changeStates never changes an article whose author is not the
\* acting user, whoever the acting user is.
C10_BulkOwnerScoped ==
  [][Served("changeStates") =>
       \A i \in Ids : ~IsAuthorOf(last'.user, i) => articles'[i] = articles[i]]_vars

\* C10 witness: an admin's changeStates succeeded with, in its list, the id
\* of another author's article whose state is in the origin set; the
\* article is still in that state.
C10_Witness ==
  /\ last.op = "changeStates" /\ last.result = "ok" /\ IsAdmin(last.user)
  /\ \E k \in DOMAIN last.ids :
       /\ last.ids[k] \in Ids
       /\ ~IsAuthorOf(last.user, last.ids[k])
       /\ articles[last.ids[k]].state \in OriginStates(last.state)

(***************************************************************************)
(* Comments: readComment (PATCH /comments/:id).                            *)
(***************************************************************************)
RootComments == 2

\* answerOf of a root comment (null).
NoComment == 0

\* A comment left by a reader on an article; readers' comments are stored
\* by another service.
RootComment(articleId) ==
  [articleId |-> articleId, answerOf |-> NoComment, readedAt |-> Unset,
   userName |-> "reader", message |-> <<"h", "i">>]

CommentIds == DOMAIN comments
CommentReqIds == CommentIds \cup {Len(comments) + 1, Malformed}

\* nModified of updateOne with the filter { _id: id }
NModifiedAnyState(comms, id) == IF id \in DOMAIN comms THEN 1 ELSE 0

\* nModified of Comment.updateOne({ _id: id, readedAt: null }, readedState)
NModified(comms, id) ==
  IF id \in DOMAIN comms /\ comms[id].readedAt = Unset THEN 1 ELSE 0

ReadComment(id, user) ==
  LET n == IF IsValid(id) THEN NModified(comments, id) ELSE 0
      r == IF ~IsValid(id) THEN "invalidId"
           ELSE IF n = 0 THEN "alreadyRead" ELSE "ok"
  IN
  /\ comments' = IF n = 0 THEN comments
                 ELSE [comments EXCEPT ![id].readedAt = now]
  /\ last' = Response("readComment", user._id.val, id, "none", <<>>, r)
  /\ UNCHANGED <<articles, now, pending, outbox, settings, stats>>

\* Two articles of two authors, each with root comments of readers.
InitComments ==
  /\ articles = Created(2, Owner)
  /\ now = 1
  /\ last = NoRequest
  /\ pending = {}
  /\ comments = [c \in 1..RootComments |-> RootComment(IF c = 1 THEN 1 ELSE 2)]
  /\ outbox = <<>>
  /\ settings = <<>>
  /\ stats = <<>>

NextRead ==
  \/ \E id \in CommentReqIds, user \in Users : ReadComment(id, user)
  \/ Tick

SpecRead == InitComments /\ [][NextRead]_vars

(***************************************************************************)
(* Comments: answerComment (POST /comments/:id), which awaits getOne and   *)
(* comment.save() and sends the notification in the callback of save.      *)
(***************************************************************************)
MaxAnswers == 1
MaxAnswerLength == 10000

\* validateLength(answer, 10000, 'bigger', error) of app.config.validation:
\* the error is thrown for an answer longer than the maximum.
ValidateLength(answer, max) == Len(answer) <= max

\* getOne: status false for a malformed id; else the first comment with
\* that _id whose answerOf joins no comment, with its article joined;
\* comment is undefined when there is none.
GetOne(comms, arts, id) ==
  IF ~IsValid(id) THEN [status |-> FALSE, found |-> FALSE, article |-> FALSE]
  ELSE IF id \in DOMAIN comms /\ comms[id].answerOf \notin DOMAIN comms
    THEN [status |-> TRUE, found |-> TRUE,
          article |-> comms[id].articleId \in DOMAIN arts]
    ELSE [status |-> TRUE, found |-> FALSE, article |-> FALSE]

\* The checks of answerComment before the comment is built.  Reading
\* root.comment.article._id throws a TypeError when comment or article is
\* undefined.
AnswerResult(comms, arts, id, answer) ==
  LET root == GetOne(comms, arts, id) IN
  IF ~ValidateLength(answer, MaxAnswerLength) THEN "answerTooLong"
  ELSE IF ~root.status THEN "notFound"
  ELSE IF ~root.found \/ ~root.article THEN "typeError"
  ELSE "ok"

\* sendNotification === 'yes', for every value
DispatchesAlways(notify) == TRUE

\* sendNotification === 'yes'
Dispatches(notify) == notify = "yes"

\* answerComment up to the resolution of comment.save(); saved: the
\* document was written.  A request that failed is answered here.
AnswerComment(id, user, answer, notify, saved) ==
  LET r == AnswerResult(comments, articles, id, answer)
      sendNotification == IF notify = "" THEN "no" ELSE notify
      newId == Len(comments) + 1
  IN
  IF r = "ok" /\ saved
    THEN /\ Len(comments) < RootComments + MaxAnswers
         /\ Cardinality(pending) < MaxPending
         /\ comments' = Append(comments,
              [articleId |-> comments[id].articleId, answerOf |-> id,
               readedAt |-> Unset, userName |-> user._id.val,
               message |-> answer])
         /\ pending' = pending \cup
              {[user |-> user._id.val, root |-> id, answer |-> newId,
                sendNotification |-> sendNotification]}
         /\ UNCHANGED <<articles, now, last, outbox, settings, stats>>
    ELSE /\ last' = ResponseWith("answerComment", user._id.val, id,
                      [notify |-> notify, answer |-> NoComment],
                      IF r = "ok" THEN "internalError" ELSE r)
         /\ UNCHANGED <<articles, now, pending, comments, outbox, settings, stats>>

\* The callback of save and the response; thrown: sendEmail threw.
AnswerThen(p, thrown) ==
  /\ thrown => Dispatches(p.sendNotification)
  /\ outbox' = IF Dispatches(p.sendNotification)
                 THEN Append(outbox, [comment |-> p.root, answer |-> p.answer])
                 ELSE outbox
  /\ pending' = pending \ {p}
  /\ last' = ResponseWith("answerComment", p.user, p.root,
               [notify |-> p.sendNotification, answer |-> p.answer],
               IF thrown THEN "internalError" ELSE "ok")
  /\ UNCHANGED <<articles, now, comments, settings, stats>>

AnswerInputs == {<<"o", "k">>, Title(MaxAnswerLength + 1)}
NotifyInputs == {"", "yes", "no"}

NextAnswer ==
  \/ /\ Idle
     /\ \E id \in CommentReqIds, user \in Users, answer \in AnswerInputs,
           notify \in NotifyInputs, saved \in BOOLEAN :
          AnswerComment(id, user, answer, notify, saved)
  \/ /\ Idle
     /\ \E p \in pending, thrown \in BOOLEAN : AnswerThen(p, thrown)
  \/ Forget

SpecAnswer == InitComments /\ [][NextAnswer]_vars

(***************************************************************************)
(* Comments: get (GET /comments), the root comments of the articles of a   *)
(* user by read state.                                                     *)
(***************************************************************************)
DefaultCommentsPage == 1
DefaultCommentsLimit == 10

\* The $match of the listings with only-readed taking answers too.
MatchRootsReadAnswers(c, arts, user, type) ==
  /\ c.articleId \in DOMAIN arts
  /\ FilterMatches(arts[c.articleId].userId, ObjectId(user._id))
  /\ type # "only-readed" => c.answerOf = NoComment
  /\ type = "not-readed" => c.readedAt = Unset
  /\ type = "only-readed" => c.readedAt # Unset

\* The $match of getAllComments, getNotReadedComments and
\* getOnlyReadedComments: the author joined through the article of the
\* comment is the user, the comment is no answer, and readedAt is null
\* (not-readed) or not null (only-readed).
MatchRoots(c, arts, user, type) ==
  /\ c.articleId \in DOMAIN arts
  /\ FilterMatches(arts[c.articleId].userId, ObjectId(user._id))
  /\ c.answerOf = NoComment
  /\ type = "not-readed" => c.readedAt = Unset
  /\ type = "only-readed" => c.readedAt # Unset

\* The matching comments sorted by createdAt descending, which is the
\* descending order of the ids.
RECURSIVE SortedRoots(_, _, _, _, _, _)
SortedRoots(comms, arts, user, type, c, acc) ==
  IF c > Len(comms) THEN acc
  ELSE SortedRoots(comms, arts, user, type, c + 1,
                   IF MatchRoots(comms[c], arts, user, type) THEN <<c>> \o acc ELSE acc)

\* get: no type of the three gives no result, and a listing whose
\* aggregate throws (a $limit that is not positive, a negative $skip) gives
\* status false.
CommentsGet(user, type, page, limit) ==
  LET effPage == ParseIntOr(page, DefaultCommentsPage)
      effLimit == ParseIntOr(limit, DefaultCommentsLimit)
      skip == effPage * effLimit - effLimit
      sorted == SortedRoots(comments, articles, user, type, 1, <<>>)
      known == type \in {"all", "not-readed", "only-readed"}
      status == effLimit >= 1 /\ skip >= 0
  IN
  /\ last' = ResponseWith("commentsGet", user._id.val, 0,
               [type |-> type, pageInput |-> page, limitInput |-> limit,
                page |-> effPage, limit |-> effLimit, skip |-> skip,
                comments |-> IF known /\ status
                               THEN Window(sorted, skip, effLimit) ELSE <<>>,
                count |-> IF known /\ status THEN Len(sorted) ELSE 0],
               IF ~known THEN "invalidType"
               ELSE IF ~status THEN "internalError" ELSE "ok")
  /\ UNCHANGED <<articles, now, pending, comments, outbox, settings, stats>>

CommentTypeInputs == {"all", "not-readed", "only-readed", ""}

\* The comments of InitComments, one more root comment on the second
\* article and an answer of its author to the second comment.
InitRoots ==
  /\ articles = Created(2, Owner)
  /\ now = 1
  /\ last = NoRequest
  /\ pending = {}
  /\ comments = [c \in 1..(RootComments + 1) |-> RootComment(IF c = 1 THEN 1 ELSE 2)]
                  \o <<[articleId |-> 2, answerOf |-> 2, readedAt |-> Unset,
                        userName |-> "u1", message |-> <<"o", "k">>]>>
  /\ outbox = <<>>
  /\ settings = <<>>
  /\ stats = <<>>

NextRoots ==
  \/ /\ Idle
     /\ \E user \in Users, type \in CommentTypeInputs, page \in PageInputs,
           limit \in LimitInputs :
          CommentsGet(user, type, page, limit)
  \/ /\ Idle
     /\ \E id \in CommentReqIds, user \in Users : ReadComment(id, user)
  \/ Forget

SpecRoots == InitRoots /\ [][NextRoots]_vars

(***************************************************************************)
(* Comment settings (settings.js): get and save on the comment_settings    *)
(* table.  A column or a body value v is written <<v>>, NULL and null <<>>. *)
(***************************************************************************)
DeletedUserIds == {"u2"}

\* verifyUser: User.findOne({ _id: user._id, deletedAt: null }) finds the
\* user, whose id is then user._id.
VerifyUser(user) == user._id.val \notin DeletedUserIds

\* body[f] is truthy; zero is the falsy value of its type ('' or 0).
Truthy(body, f, zero) == Has(body, f) /\ body[f] # <<>> /\ body[f] # <<zero>>

\* verifyEnumFields: the name of the first field with a value that is
\* truthy and not allowed.
VerifyEnumFields(body) ==
  IF Truthy(body, "answersType", "")
       /\ body.answersType[1] \notin {"all", "not-readed", "only-readed", "disabled", "enabled"}
    THEN "answersType"
  ELSE IF Truthy(body, "type", "")
       /\ body.type[1] \notin {"all", "not-readed", "only-readed", "disabled", "enabled"}
    THEN "type"
  ELSE IF Truthy(body, "answersOrder", "") /\ body.answersOrder[1] \notin {"desc", "asc"}
    THEN "answersOrder"
  ELSE IF Truthy(body, "order", "") /\ body.order[1] \notin {"desc", "asc"}
    THEN "order"
  ELSE "ok"

\* select ... where('userId', uid).first()
First(rows, uid) ==
  LET found == SelectSeq(rows, LAMBDA row : row.userId = uid) IN
  IF found = <<>> THEN NoRow ELSE found[1]

\* A value of the body as the column stores it: a boolean as 1 or 0, a
\* value the body does not have as NULL.
Column(body, f) ==
  IF ~Has(body, f) THEN <<>>
  ELSE IF f = "notify" /\ body[f] # <<>> THEN IF body[f][1] THEN <<1>> ELSE <<0>>
  ELSE body[f]

\* The row the response carries: notify as Boolean(notify).
Settings(row) == [row EXCEPT !.notify = row.notify \notin {<<>>, <<0>>}]

\* updatedSettings with notify kept from the previous notify
UpdatedSettingsKeepNotify(body, currentSettings) ==
  [userId |-> currentSettings.userId,
   limit |-> IF Truthy(body, "limit", 0) THEN body.limit ELSE currentSettings.limit,
   notify |-> IF Has(body, "notify") /\ body.notify # <<>>
                THEN Column(body, "notify") ELSE currentSettings.notify,
   order |-> IF Truthy(body, "order", "") THEN body.order ELSE currentSettings.order,
   type |-> IF Truthy(body, "type", "") THEN body.type ELSE currentSettings.type,
   answersOrder |-> IF Truthy(body, "answersOrder", "")
                      THEN body.answersOrder ELSE currentSettings.answersOrder,
   answersType |-> IF Truthy(body, "answersType", "")
                     THEN body.answersType ELSE currentSettings.answersType]

\* updatedSettings of save
UpdatedSettings(body, currentSettings) ==
  [userId |-> currentSettings.userId,
   limit |-> IF Truthy(body, "limit", 0) THEN body.limit ELSE currentSettings.limit,
   notify |-> IF Has(body, "notify") /\ body.notify # <<>>
                THEN Column(body, "notify") ELSE currentSettings.limit,
   order |-> IF Truthy(body, "order", "") THEN body.order ELSE currentSettings.order,
   type |-> IF Truthy(body, "type", "") THEN body.type ELSE currentSettings.type,
   answersOrder |-> IF Truthy(body, "answersOrder", "")
                      THEN body.answersOrder ELSE currentSettings.answersOrder,
   answersType |-> IF Truthy(body, "answersType", "")
                     THEN body.answersType ELSE currentSettings.answersType]

\* The table after the write of save: an insert when the select found no
\* row, an update of every row of the user otherwise.
Written(rows, uid, body, currentSettings) ==
  IF currentSettings = NoRow
    THEN Append(rows,
           [userId |-> uid, notify |-> Column(body, "notify"),
            limit |-> Column(body, "limit"), order |-> Column(body, "order"),
            type |-> Column(body, "type"),
            answersOrder |-> Column(body, "answersOrder"),
            answersType |-> Column(body, "answersType")])
    ELSE [k \in DOMAIN rows |->
            IF rows[k].userId = uid
              THEN UpdatedSettings(body, currentSettings) ELSE rows[k]]

\* save: the response body keeps the request body and the row read first.
SettingsSave(user, body) ==
  LET uid == user._id.val
      enum == VerifyEnumFields(body)
      currentSettings == First(settings, uid)
      r == IF enum # "ok" THEN enum
           ELSE IF ~VerifyUser(user) THEN "userNotFound" ELSE "ok"
      written == IF r # "ok" THEN settings
                 ELSE Written(settings, uid, body, currentSettings)
  IN
  /\ settings' = written
  /\ last' = ResponseWith("settingsSave", uid, 0,
               [patch |-> body, before |-> currentSettings,
                settings |-> IF r = "ok" THEN Settings(First(written, uid)) ELSE NoRow],
               r)
  /\ UNCHANGED <<articles, now, pending, comments, outbox, stats>>

\* get; ttl is the cm-ttl-comments header.
SettingsGet(user, ttl) ==
  LET uid == user._id.val
      row == First(settings, uid)
      r == IF ttl # <<>> /\ ttl[1] >= now THEN "notModified"
           ELSE IF ~VerifyUser(user) THEN "userNotFound"
           ELSE IF row = NoRow THEN "noSettings" ELSE "ok"
  IN
  /\ last' = ResponseWith("settingsGet", uid, 0,
               [ttl |-> ttl, settings |-> IF r = "ok" THEN Settings(row) ELSE NoRow], r)
  /\ UNCHANGED <<articles, now, pending, comments, outbox, settings, stats>>

SettingsBodies ==
  { NoBody,
    [type |-> <<"all">>], [type |-> <<"not-readed">>, limit |-> <<5>>],
    [type |-> <<"">>], [type |-> <<"every">>],
    [order |-> <<"asc">>, notify |-> <<TRUE>>], [order |-> <<"up">>, limit |-> <<5>>],
    [answersType |-> <<"enabled">>, answersOrder |-> <<"desc">>],
    [answersType |-> <<"none">>], [answersOrder |-> <<"down">>],
    [limit |-> <<0>>], [notify |-> <<FALSE>>], [notify |-> <<>>, limit |-> <<5>>] }

TtlInputs == {<<>>, <<0>>, <<MaxNow + 1>>}

\* The users of the settings requests: u1, and u2, who is deleted.
SettingsUsers == {User("u1"), User("u2")}

NextSettings ==
  \/ /\ Idle
     /\ \E user \in SettingsUsers, body \in SettingsBodies : SettingsSave(user, body)
  \/ \E user \in SettingsUsers, ttl \in TtlInputs : SettingsGet(user, ttl)
  \/ Forget

SpecSettings == Init /\ [][NextSettings]_vars

\* ---------------------------------------------------------------------
\* save of the settings, split at its awaits: the select of the current
\* row, then the insert or the update with the response.
\* ---------------------------------------------------------------------

\* The requests of one kind that may be between their read and their write
\* together.
MaxInFlight == 2

\* save up to the select of currentSettings.
SettingsSaveRead(user, body) ==
  LET uid == user._id.val
      enum == VerifyEnumFields(body)
      r == IF enum # "ok" THEN enum
           ELSE IF ~VerifyUser(user) THEN "userNotFound" ELSE "ok"
      p == [user |-> uid, body |-> body, currentSettings |-> First(settings, uid)]
  IN
  IF r = "ok"
    THEN /\ Cardinality(pending) < MaxInFlight
         /\ p \notin pending
         /\ pending' = pending \cup {p}
         /\ UNCHANGED <<articles, now, last, comments, outbox, settings, stats>>
    ELSE /\ last' = ResponseWith("settingsSave", uid, 0,
                      [patch |-> body, before |-> NoRow, settings |-> NoRow], r)
         /\ UNCHANGED <<articles, now, pending, comments, outbox, settings, stats>>

\* save from its write on.
SettingsSaveWrite(p) ==
  LET written == Written(settings, p.user, p.body, p.currentSettings) IN
  /\ p \in pending
  /\ pending' = pending \ {p}
  /\ settings' = written
  /\ last' = ResponseWith("settingsSave", p.user, 0,
               [patch |-> p.body, before |-> p.currentSettings,
                settings |-> Settings(First(written, p.user))], "ok")
  /\ UNCHANGED <<articles, now, comments, outbox, stats>>

\* The bodies of the interleaved saves.
RaceBodies ==
  {NoBody, [limit |-> <<5>>], [type |-> <<"all">>, notify |-> <<TRUE>>],
   [type |-> <<"every">>]}

NextSettingsRace ==
  \/ /\ Idle
     /\ \E user \in SettingsUsers, body \in RaceBodies : SettingsSaveRead(user, body)
  \/ /\ Idle
     /\ \E p \in pending : SettingsSaveWrite(p)
  \/ Forget

SpecSettingsRace == Init /\ [][NextSettingsRace]_vars

\* ---------------------------------------------------------------------
\* commentsJob: the monthly count of the root comments, for each user and
\* for the platform. Dates are instants counted in half days from the
\* first day of year 0; every year has 365 days.
\* ---------------------------------------------------------------------

\* The runs of the job that are modelled.
MaxRuns == 2

\* The days of the months, from January.
MonthDays == <<31, 28, 31, 30, 31, 30, 31, 31, 30, 31, 30, 31>>

RECURSIVE DaysBefore(_)
\* The days of the year before the month of index m, January being 0.
DaysBefore(m) == IF m = 0 THEN 0 ELSE MonthDays[m] + DaysBefore(m - 1)

\* new Date(year, month, day): midnight of the day, counted from the first
\* day of the month and running into the next months when it is past the end.
DateOf(year, month, day) == 2 * (365 * year + DaysBefore(month) + day - 1)

\* Date.prototype.getFullYear and Date.prototype.getMonth.
GetFullYear(t) == (t \div 2) \div 365
GetMonth(t) ==
  CHOOSE m \in 0..11 :
    /\ DaysBefore(m) <= (t \div 2) % 365
    /\ (t \div 2) % 365 < DaysBefore(m + 1)

\* The days that bound the counts of a run started at instant t.
FirstDayOfWindow == 1
LastDayOfWindow == 31
FirstDay(t) == DateOf(GetFullYear(t), GetMonth(t), FirstDayOfWindow)
LastDay(t) == DateOf(GetFullYear(t), GetMonth(t), LastDayOfWindow)

\* createdAt: { $gte: firstDay, $lt: lastDay }
CreatedInWindow(c, t) == c.createdAt >= FirstDay(t) /\ c.createdAt < LastDay(t)

\* The users of a run, deleted ones included.
JobUsersWithDeleted == UserIds

\* User.find({ deletedAt: null })
JobUsers == UserIds \ DeletedUserIds

\* The count of the aggregate of a user: the comments that are no answer,
\* were created in the window and are on an article of the user.
UserComments(comms, arts, uid, t) ==
  Cardinality({c \in DOMAIN comms :
                 /\ comms[c].articleId \in DOMAIN arts
                 /\ arts[comms[c].articleId].userId = ObjectId(Str(uid))
                 /\ comms[c].answerOf = NoComment
                 /\ CreatedInWindow(comms[c], t)})

\* Comment.countDocuments of the platform.
AllComments(comms, t) ==
  Cardinality({c \in DOMAIN comms :
                 comms[c].answerOf = NoComment /\ CreatedInWindow(comms[c], t)})

\* commentsJob up to the dispatch of its counts: one for each user and one
\* for the platform, none awaited.
CommentsJob ==
  /\ pending = {}
  /\ Len(stats) < MaxRuns * (Cardinality(JobUsers) + 1)
  /\ pending' = {[reference |-> ref, date |-> now] : ref \in JobUsers \cup {NoRef}}
  /\ UNCHANGED <<articles, now, last, comments, outbox, settings, stats>>

\* One count of commentsJob and the insert of its row.
JobInsert(task) ==
  /\ task \in pending
  /\ pending' = pending \ {task}
  /\ stats' = Append(stats,
       [month |-> GetMonth(task.date) + 1,
        count |-> IF task.reference = NoRef
                    THEN AllComments(comments, task.date)
                    ELSE UserComments(comments, articles, task.reference, task.date),
        year |-> GetFullYear(task.date),
        reference |-> task.reference])
  /\ UNCHANGED <<articles, now, last, comments, outbox, settings>>

\* The instants at which the job is started: 15 January and 10 February.
JobDates == {DateOf(0, 0, 15), DateOf(0, 1, 10)}

\* The instants at which the comments were created, for a job started at t:
\* the eve of the first day, the first day, noon of day 30, midnight and
\* noon of day 31, and day 32.
CreatedAtInputs(t) ==
  <<FirstDay(t) - 1, FirstDay(t), LastDay(t) - 1, LastDay(t), LastDay(t) + 1,
    LastDay(t) + 2>>

\* A root comment on each of the two articles for each instant, and an
\* answer to the second comment.
JobComments(t) ==
  [c \in 1..(2 * Len(CreatedAtInputs(t))) |->
     [articleId |-> IF c % 2 = 1 THEN 1 ELSE 2, answerOf |-> NoComment,
      readedAt |-> Unset, userName |-> "reader", message |-> <<"h", "i">>,
      createdAt |-> CreatedAtInputs(t)[(c + 1) \div 2]]]
  \o <<[articleId |-> 2, answerOf |-> 2, readedAt |-> Unset, userName |-> "u1",
        message |-> <<"o", "k">>, createdAt |-> FirstDay(t) + 1]>>

InitJob ==
  /\ articles = Created(2, Owner)
  /\ now \in JobDates
  /\ last = NoRequest
  /\ pending = {}
  /\ comments = JobComments(now)
  /\ outbox = <<>>
  /\ settings = <<>>
  /\ stats = <<>>

NextJob ==
  \/ CommentsJob
  \/ \E task \in pending : JobInsert(task)

SpecJob == InitJob /\ [][NextJob]_vars

\* ---------------------------------------------------------------------
\* saveImage split at the upload: the request up to uploadImg, then the
\* callback that uploadImg calls with the outcome of the upload.
\* ---------------------------------------------------------------------

\* saveImage up to the call of uploadImg, with the article it has read.
SaveImageRequest(id, user, type) ==
  LET r == SaveImageResult(articles, id, type, "error", TRUE) IN
  IF r \in {"invalidType", "notFound"}
    THEN /\ last' = Response("saveImage", user._id.val, id, type, <<>>, r)
         /\ UNCHANGED <<articles, now, pending, comments, outbox, settings, stats>>
    ELSE /\ Cardinality(pending) < MaxPending
         /\ pending' = pending \cup
              {[id |-> id, user |-> user._id.val, type |-> type,
                article |-> articles[id]]}
         /\ UNCHANGED <<articles, now, last, comments, outbox, settings, stats>>

\* The callback of uploadImg: a return without a response when the key of
\* the previous image is not derived, the update and the response otherwise.
SaveImageCallback(p, upload, keyStatus) ==
  LET r == SaveImageResult([articles EXCEPT ![p.id] = p.article], p.id, p.type,
                           upload, keyStatus)
  IN
  /\ p \in pending
  /\ pending' = pending \ {p}
  /\ articles' = IF r = "ok"
                   THEN UpdateOne(articles, p.id, [f \in {ImgKey(p.type)} |-> upload])
                   ELSE articles
  /\ last' = IF r = "noResponse" THEN last
             ELSE Response("saveImage", p.user, p.id, p.type, <<>>, r)
  /\ UNCHANGED <<now, comments, outbox, settings, stats>>

NextImage ==
  \/ /\ Idle
     /\ \E id \in ReqIds, user \in Users, type \in ImageTypeInputs :
          SaveImageRequest(id, user, type)
  \/ \E p \in pending, upload \in Uploads, keyStatus \in BOOLEAN :
       SaveImageCallback(p, upload, keyStatus)
  \/ Forget

\* uploadImg always calls its callback.
SpecImage ==
  /\ Init
  /\ [][NextImage]_vars
  /\ WF_vars(\E p \in pending, upload \in Uploads, keyStatus \in BOOLEAN :
               SaveImageCallback(p, upload, keyStatus))

\* ---------------------------------------------------------------------
\* changeState split at its awaits: validateState with its reads, then the
\* update with the response.  One author, several articles, a running clock.
\* ---------------------------------------------------------------------

\* changeState up to the end of validateState, with the article it returned;
\* req tells the requests in flight apart.
StartChangeState(id, user, state) ==
  LET r == ValidateState(articles, id, user, state) IN
  IF r = "ok"
    THEN /\ Cardinality(pending) < MaxInFlight
         /\ pending' = pending \cup
              {[id |-> id, user |-> user, state |-> state, article |-> articles[id],
                req |-> Cardinality(pending) + 1]}
         /\ UNCHANGED <<articles, now, last, comments, outbox, settings, stats>>
    ELSE /\ last' = Response("changeState", user._id.val, id, state, <<>>, r)
         /\ UNCHANGED <<articles, now, pending, comments, outbox, settings, stats>>

\* changeState from its update on.
FinishChangeState(p) ==
  /\ p \in pending
  /\ "id" \in DOMAIN p
  /\ articles' = UpdateOne(articles, p.id, ChangeStateUpdate(p.article, p.state, now))
  /\ last' = Response("changeState", p.user._id.val, p.id, p.state, <<>>, "ok")
  /\ pending' = pending \ {p}
  /\ UNCHANGED <<now, comments, outbox, settings, stats>>

\* The wanted states of the interleaved requests, all of them of u1.
RaceStates == {"boosted"}

NextStateRace ==
  \/ /\ Idle
     /\ \E id \in Ids, state \in RaceStates :
          StartChangeState(id, User("u1"), state)
  \/ /\ Idle
     /\ \E p \in pending : FinishChangeState(p)
  \/ /\ Idle
     /\ \E articlesId \in ArticlesIdInputs(Ids) :
          StartChangeStates(User("u1"), articlesId, "boosted")
  \/ /\ Idle
     /\ \E p \in pending : "items" \in DOMAIN p /\ FinishChangeStates(p)
  \/ Tick
  \/ Forget

SpecStateRace == InitQuota /\ [][NextStateRace]_vars

\* ---------------------------------------------------------------------
\* readComment split at its await: the check of the id and the value of
\* readedState, then the update with the response.
\* ---------------------------------------------------------------------

\* readComment up to the call of updateOne; req tells the requests in
\* flight apart.
StartReadComment(id, user) ==
  IF ~IsValid(id)
    THEN /\ last' = ResponseWith("readComment", user._id.val, id,
                                 [readedAt |-> Unset], "invalidId")
         /\ UNCHANGED <<articles, now, pending, comments, outbox, settings, stats>>
    ELSE /\ Cardinality(pending) < MaxInFlight
         /\ pending' = pending \cup
              {[id |-> id, user |-> user._id.val, readedAt |-> now,
                req |-> Cardinality(pending) + 1]}
         /\ UNCHANGED <<articles, now, last, comments, outbox, settings, stats>>

\* The update of readComment, whatever the comment holds.
FinishReadCommentAnyState(p) ==
  /\ p \in pending
  /\ pending' = pending \ {p}
  /\ comments' = IF p.id \in DOMAIN comments
                   THEN [comments EXCEPT ![p.id].readedAt = p.readedAt]
                   ELSE comments
  /\ last' = ResponseWith("readComment", p.user, p.id, [readedAt |-> p.readedAt],
                          IF p.id \in DOMAIN comments THEN "ok" ELSE "alreadyRead")
  /\ UNCHANGED <<articles, now, outbox, settings, stats>>

\* readComment from its updateOne on.
FinishReadComment(p) ==
  LET n == NModified(comments, p.id) IN
  /\ p \in pending
  /\ pending' = pending \ {p}
  /\ comments' = IF n = 0 THEN comments
                 ELSE [comments EXCEPT ![p.id].readedAt = p.readedAt]
  /\ last' = ResponseWith("readComment", p.user, p.id, [readedAt |-> p.readedAt],
                          IF n = 0 THEN "alreadyRead" ELSE "ok")
  /\ UNCHANGED <<articles, now, outbox, settings, stats>>

\* The requests are those of u1: readComment does not read req.user.
NextReadRace ==
  \/ /\ Idle
     /\ \E id \in CommentReqIds : StartReadComment(id, User("u1"))
  \/ /\ Idle
     /\ \E p \in pending : FinishReadComment(p)
  \/ Tick
  \/ Forget

SpecReadRace == InitComments /\ [][NextReadRace]_vars

\* ---------------------------------------------------------------------
\* The requests that change the state of articles, each run to its end.
\* ---------------------------------------------------------------------
NextReject ==
  \/ /\ Idle
     /\ \E id \in ReqIds \cup {Malformed}, user \in Users, state \in StateInputs :
          ChangeState(id, user, state)
  \/ /\ Idle
     /\ \E user \in Users, articlesId \in ArticlesIdInputs(ReqIds),
           state \in StateInputs :
          ChangeStates(user, articlesId, state)
  \/ /\ Idle
     /\ \E id \in ReqIds \cup {Malformed}, user \in Users : Remove(id, user)
  \/ Forget

SpecReject == Init /\ [][NextReject]_vars

\* The origin states of each target state.
C11_Origin(target) ==
  CASE target = "published" -> {"draft", "inactivated"}
    [] target = "boosted" -> {"published"}
    [] target = "inactivated" -> {"published", "boosted"}
    [] target = "removed" -> {"draft"}

InList(i, ids) == \E k \in DOMAIN ids : ids[k] = i

C13_StateHasTimestamp ==
  \A i \in Ids :
    articles[i].state \in {"published", "boosted", "inactivated"} =>
      articles[i][StateTimestamp(articles[i].state)] # Unset

\* C12: whenever an article enters state removed, by remove or by
\* changeStates, its customUri becomes the generated default.
C12_RemovalResetsUri ==
  [][\A i \in Ids :
       (articles[i].state # "removed" /\ articles'[i].state = "removed") =>
         articles'[i].customUri = DefaultUri]_vars

Immutable == {"state", "userId", "logoImg", "secondaryImg", "headerImg"}

\* C14: save never changes an article's state, author or image references,
\* whatever fields its patch contains.
C14_SaveKeepsImmutable ==
  [][Served("save") =>
       \A i \in Ids : \A f \in Immutable : articles'[i][f] = articles[i][f]]_vars

\* C14 witness: a successful save whose patch named another state and
\* another author than the article's; its title was written.
C14_Witness ==
  /\ last.op = "save" /\ last.result = "ok"
  /\ Has(last.body, "state") /\ Has(last.body, "userId") /\ Has(last.body, "title")
  /\ articles[last.id].title = last.body.title
  /\ last.body.state # articles[last.id].state
  /\ last.body.userId # articles[last.id].userId

\* C15: after any sequence of saves, every article that has a categoryId
\* has a themeId, and the theme of that category is the article's themeId.
C15_CategoryOfTheme ==
  \A i \in Ids :
    articles[i].categoryId # NoRef =>
      /\ articles[i].themeId # NoRef
      /\ Categories[articles[i].categoryId].themeId = articles[i].themeId

\* C16: create with a non-empty title of at most 100 characters inserts
\* exactly one article, a draft of the acting user with that title; create
\* with a missing, empty or longer title fails and inserts nothing.
C16_CreateInsertsOneDraft ==
  [][Served("create") =>
       IF /\ Has(last'.body, "title")
          /\ last'.body.title # <<>>
          /\ Len(last'.body.title) <= MaxTitleLength
         THEN /\ last'.result = "ok"
              /\ Len(articles') = Len(articles) + 1
              /\ SubSeq(articles', 1, Len(articles)) = articles
              /\ articles'[Len(articles')].state = "draft"
              /\ articles'[Len(articles')].title = last'.body.title
              /\ articles'[Len(articles')].userId.val = last'.user
         ELSE /\ last'.result # "ok"
              /\ articles' = articles]_vars

\* C16 witness: a create with a title of exactly 100 characters succeeded
\* and its article is the last one of the collection.
C16_Witness ==
  /\ last.op = "create" /\ last.result = "ok"
  /\ Len(last.body.title) = MaxTitleLength
  /\ articles # <<>>
  /\ articles[Len(articles)].title = last.body.title
  /\ articles[Len(articles)].state = "draft"

\* C17: in every state reachable by create and save, every article's title
\* is non-empty and at most 100 characters long.
C17_TitleBounded ==
  \A i \in Ids :
    articles[i].title # <<>> /\ Len(articles[i].title) <= MaxTitleLength

\* C18: the list a non-admin receives holds only articles that user
\* authored, whatever the type flag; only an admin asking for type all
\* receives articles of other authors.
C18_ListScopedToAuthor ==
  (last.op = "list" /\ last.result = "ok") =>
    \A k \in DOMAIN last.body.articles :
      \/ IsAuthorOf(last.user, last.body.articles[k])
      \/ IsAdmin(last.user) /\ last.body.type = "all"

\* C18 witness: a non-admin asked for type all and received articles, while
\* an article of another author that is not removed was left out.
C18_Witness ==
  /\ last.op = "list" /\ last.result = "ok"
  /\ ~IsAdmin(last.user) /\ last.body.type = "all"
  /\ last.body.filter.query = <<>>
  /\ last.body.filter.tId = NoRef /\ last.body.filter.cId = NoRef
  /\ last.body.articles # <<>>
  /\ \E i \in Ids :
       /\ ~IsAuthorOf(last.user, i) /\ articles[i].state # "removed"
       /\ ~InList(i, last.body.articles)

\* The articles the filter predicate of a list request matches: not
\* removed, in the scope of the request, title containing the query, of the
\* theme and the category asked for.
C19_Matching ==
  {i \in Ids :
     /\ articles[i].state # "removed"
     /\ \/ IsAuthorOf(last.user, i)
        \/ IsAdmin(last.user) /\ last.body.type = "all"
     /\ \/ last.body.filter.query = <<>>
        \/ last.body.filter.query = <<"N">> /\ articles[i].title = <<"n">>
     /\ last.body.filter.tId \in {NoRef, articles[i].themeId}
     /\ last.body.filter.cId \in {NoRef, articles[i].categoryId}}

\* C19: a list response holds at most limit items, all of them matching,
\* and its count is the number of all matching articles, whatever the page,
\* also when the page lies beyond the last item.
C19_CountIsTotal ==
  (last.op = "list" /\ last.result = "ok") =>
    /\ Len(last.body.articles) <= last.body.limit
    /\ \A k \in DOMAIN last.body.articles : last.body.articles[k] \in C19_Matching
    /\ last.body.count = Cardinality(C19_Matching)

\* C19 witness: two articles match, the limit is 1 and the page is 2: the
\* response holds one item and count 2.
C19_Witness ==
  /\ last.op = "list" /\ last.result = "ok"
  /\ last.body.limit = 1 /\ last.body.page = 2
  /\ Len(last.body.articles) = 1
  /\ last.body.count = 2

\* C20: for every page and limit input the effective page is at least 1 and
\* the effective limit is between 1 and 100; a missing or unparsable page
\* becomes 1, a page below 1 becomes 1, a missing limit becomes 6, a limit
\* above 100 becomes 6; the skip offset (page - 1) * limit is not negative.
C20_PageAndLimitInRange ==
  last.op = "list" =>
    /\ last.body.page >= 1
    /\ last.body.limit >= 1 /\ last.body.limit <= MaxLimit
    /\ last.body.pageInput \in {<<>>, <<"x">>, <<"-", "1">>} => last.body.page = 1
    /\ last.body.limitInput = <<>> => last.body.limit = DefaultLimit
    /\ last.body.limitInput = <<"1", "0", "1">> => last.body.limit = DefaultLimit
    /\ last.body.skip = (last.body.page - 1) * last.body.limit
    /\ last.body.skip >= 0

\* C21: readComment on a comment whose readedAt is set reports the
\* already-read conflict and leaves readedAt unchanged; a readComment that
\* succeeds found readedAt unset and set it.
C21_SecondReadIsConflict ==
  [][Served("readComment") =>
       /\ \A c \in CommentIds :
            comments[c].readedAt # Unset =>
              comments'[c].readedAt = comments[c].readedAt
       /\ (last'.id \in CommentIds /\ comments[last'.id].readedAt # Unset) =>
            last'.result = "alreadyRead"
       /\ last'.result = "ok" =>
            /\ comments[last'.id].readedAt = Unset
            /\ comments'[last'.id].readedAt # Unset]_vars

\* C21 witness: a readComment on a comment read at an earlier time was
\* answered with the conflict.
C21_Witness ==
  /\ last.op = "readComment" /\ last.result = "alreadyRead"
  /\ last.id \in CommentIds
  /\ comments[last.id].readedAt # Unset
  /\ comments[last.id].readedAt < now

\* C26: readedAt of a comment changes only in a readComment of the author
\* of the comment's article.
C26_OnlyAuthorMarksRead ==
  [][\A c \in CommentIds :
       comments'[c].readedAt # comments[c].readedAt =>
         /\ Served("readComment")
         /\ IsAuthorOf(last'.user, comments[c].articleId)]_vars

\* C23: every answer references an existing root comment and has the
\* articleId of that root; answerComment on an id that is unknown or that is
\* the id of an answer fails as not found and creates no comment.
C23_AnswersReferenceRoots ==
  [][/\ \A c \in DOMAIN comments' :
          comments'[c].answerOf # NoComment =>
            /\ comments'[c].answerOf \in DOMAIN comments'
            /\ comments'[comments'[c].answerOf].answerOf = NoComment
            /\ comments'[comments'[c].answerOf].articleId = comments'[c].articleId
     /\ (/\ Served("answerComment")
         /\ \/ last'.id \notin CommentIds
            \/ comments[last'.id].answerOf # NoComment)
          => /\ last'.result = "notFound"
             /\ comments' = comments]_vars

\* C24: sendEmail is called exactly when notify is yes and the answer has
\* been saved: never before the save, never for a request that failed
\* validation or the save, never for notify no or absent, at most once for
\* an answer; a sendEmail that throws leaves the saved answer in place.
C24_NotifyAfterSave ==
  [][/\ outbox' # outbox =>
          /\ Len(outbox') = Len(outbox) + 1
          /\ SubSeq(outbox', 1, Len(outbox)) = outbox
          /\ outbox'[Len(outbox')].answer \in CommentIds
          /\ comments[outbox'[Len(outbox')].answer].answerOf =
               outbox'[Len(outbox')].comment
          /\ \A k \in DOMAIN outbox :
               outbox[k].answer # outbox'[Len(outbox')].answer
          /\ Served("answerComment")
          /\ last'.body.answer = outbox'[Len(outbox')].answer
     /\ Served("answerComment") =>
          /\ comments' = comments
          /\ (outbox' # outbox) <=>
               (last'.body.answer \in CommentIds /\ last'.body.notify = "yes")
     /\ Len(comments') >= Len(comments)
     /\ SubSeq(comments', 1, Len(comments)) =
          [c \in CommentIds |-> [comments'[c] EXCEPT !.readedAt = comments[c].readedAt]]
    ]_vars

\* C24 witness: an answerComment with notify yes whose sendEmail threw was
\* answered with an error; its answer is stored and its payload was handed
\* to sendEmail once.
C24_Witness ==
  /\ last.op = "answerComment" /\ last.result = "internalError"
  /\ last.body.notify = "yes"
  /\ last.body.answer \in CommentIds
  /\ comments[last.body.answer].answerOf = last.id
  /\ outbox = <<[comment |-> last.id, answer |-> last.body.answer]>>

\* C25: every answer was created by the author of the article its root
\* comment belongs to.
C25_OnlyAuthorAnswers ==
  \A c \in CommentIds :
    comments[c].answerOf # NoComment =>
      IsAuthorOf(comments[c].userName, comments[c].articleId)

\* The comments a listing of a type selects for a user.
Selected(uid, type) ==
  {c \in CommentIds : MatchRoots(comments[c], articles, User(uid), type)}

\* C22: in every state and for every user the root comments selected by all
\* are those selected by not-readed together with those selected by
\* only-readed, the latter two have no comment in common, and the count of
\* all is the sum of the two other counts.
C22_PartitionsCoverAll ==
  \A uid \in UserIds :
    /\ Selected(uid, "all") = Selected(uid, "not-readed") \cup Selected(uid, "only-readed")
    /\ Selected(uid, "not-readed") \cap Selected(uid, "only-readed") = {}
    /\ Len(SortedRoots(comments, articles, User(uid), "all", 1, <<>>)) =
         Len(SortedRoots(comments, articles, User(uid), "not-readed", 1, <<>>))
           + Len(SortedRoots(comments, articles, User(uid), "only-readed", 1, <<>>))

\* C22 witness: a listing of type all reported the two root comments of a
\* user, one read and one not, while an answer on the user's article is
\* read too.
C22_Witness ==
  /\ last.op = "commentsGet" /\ last.result = "ok"
  /\ last.body.type = "all" /\ last.body.count = 2
  /\ Selected(last.user, "not-readed") # {}
  /\ Selected(last.user, "only-readed") # {}
  /\ \E c \in CommentIds :
       /\ comments[c].answerOf # NoComment /\ comments[c].readedAt # Unset
       /\ IsAuthorOf(last.user, comments[c].articleId)

\* C27: for every page and limit input to the listing of root comments the
\* effective page is at least 1 and the effective limit at most 100; a
\* limit above 100 becomes 10 and a missing limit becomes 10.
C27_CommentsPageAndLimit ==
  last.op = "commentsGet" =>
    /\ last.body.page >= 1
    /\ last.body.limit <= MaxLimit
    /\ last.body.limitInput = <<"1", "0", "1">> => last.body.limit = DefaultCommentsLimit
    /\ last.body.limitInput = <<>> => last.body.limit = DefaultCommentsLimit

SettingsFields == {"type", "order", "answersType", "answersOrder", "limit"}

\* A patch whose enumerated fields, where it has them, hold allowed values.
ValidPatch(body) ==
  /\ \A f \in {"type", "answersType"} :
       Has(body, f) => body[f] \in {<<"all">>, <<"not-readed">>,
                                   <<"only-readed">>, <<"disabled">>,
                                   <<"enabled">>}
  /\ \A f \in {"order", "answersOrder"} :
       Has(body, f) => body[f] \in {<<"asc">>, <<"desc">>}

\* C28: a save on an existing row followed by a get with no valid ttl
\* returns, for type, order, answersType, answersOrder and limit, the value
\* of the patch when the patch has the field and the value before the save
\* when it has not.
C28_SaveThenGet ==
  [][(/\ last.op = "settingsSave" /\ last.result = "ok"
      /\ last.body.before # NoRow
      /\ ValidPatch(last.body.patch)
      /\ Served("settingsGet") /\ last'.user = last.user
      /\ last'.result = "ok")
       => \A f \in SettingsFields :
            last'.body.settings[f] =
              IF Has(last.body.patch, f) THEN last.body.patch[f]
              ELSE last.body.before[f]]_vars

\* C29: a save on an existing row with a patch that has no notify, or null,
\* stores the previous limit in notify, so that the following get reports
\* notify true exactly when the previous limit was a number other than 0.
C29_NotifyTakesLimit ==
  [][/\ (/\ Served("settingsSave") /\ last'.result = "ok"
         /\ last'.body.before # NoRow
         /\ ~Has(last'.body.patch, "notify") \/ last'.body.patch.notify = <<>>)
          => First(settings', last'.user).notify = last'.body.before.limit
     /\ (/\ last.op = "settingsSave" /\ last.result = "ok"
         /\ last.body.before # NoRow
         /\ ~Has(last.body.patch, "notify") \/ last.body.patch.notify = <<>>
         /\ Served("settingsGet") /\ last'.user = last.user
         /\ last'.result = "ok")
          => last'.body.settings.notify =
               (last.body.before.limit \notin {<<>>, <<0>>})]_vars

\* C29 witness: a row with notify 0 and limit 5 was saved with a patch
\* without notify, and the get after it reports notify true.
C29_Witness ==
  /\ last.op = "settingsGet" /\ last.result = "ok"
  /\ last.body.settings.notify = TRUE
  /\ First(settings, last.user).notify = <<5>>

\* C30: every stored row has type and answersType unset or among the five
\* allowed values and order and answersOrder unset or asc or desc; a save
\* whose patch has another value for one of them fails and leaves the table
\* unchanged.
C30_EnumFieldsAllowed ==
  [][/\ \A k \in DOMAIN settings' :
          /\ \A f \in {"type", "answersType"} :
               settings'[k][f] \in
                 {<<>>, <<"all">>, <<"not-readed">>, <<"only-readed">>,
                  <<"disabled">>, <<"enabled">>}
          /\ \A f \in {"order", "answersOrder"} :
               settings'[k][f] \in {<<>>, <<"asc">>, <<"desc">>}
     /\ (/\ Served("settingsSave")
         /\ \E f \in {"type", "answersType"} :
              /\ Has(last'.body.patch, f)
              /\ last'.body.patch[f] \notin
                   {<<>>, <<"all">>, <<"not-readed">>, <<"only-readed">>,
                    <<"disabled">>, <<"enabled">>})
          => last'.result # "ok" /\ settings' = settings]_vars

\* C31: after any interleaving of saves the table has at most one row for
\* each user id.
C31_OneRowPerUser ==
  \A i, j \in DOMAIN settings : settings[i].userId = settings[j].userId => i = j

\* The references of the rows of a run: the users that are not deleted and
\* the null reference of the platform.
RunReferences == (UserIds \ DeletedUserIds) \cup {NoRef}

\* C32: the job only appends rows, and when a run is complete the table
\* holds, for each user that is not deleted and for the null reference, one
\* row for each run and no other row, so that two runs in one month leave
\* two rows for each month, year and reference.
C32_AppendOnlyOneRowEach ==
  [][/\ Len(stats') >= Len(stats)
     /\ \A k \in DOMAIN stats : stats'[k] = stats[k]
     /\ pending' = {} =>
          /\ \A k \in DOMAIN stats' : stats'[k].reference \in RunReferences
          /\ \A ref \in RunReferences :
               Cardinality({k \in DOMAIN stats' :
                              /\ stats'[k].reference = ref
                              /\ stats'[k].month = GetMonth(now) + 1
                              /\ stats'[k].year = GetFullYear(now)})
                 * Cardinality(RunReferences) = Len(stats')]_vars

\* C32 witness: two runs are complete and each reference has two rows.
C32_Witness ==
  /\ pending = {}
  /\ Len(stats) = 2 * Cardinality(RunReferences)
  /\ \A ref \in RunReferences :
       Cardinality({k \in DOMAIN stats : stats[k].reference = ref}) = 2

\* The root comments created from the first day of the month of instant t
\* through the end of day 31, counted from that first day.
RootsOfMonth(t) ==
  {c \in DOMAIN comments :
     /\ comments[c].answerOf = NoComment
     /\ comments[c].createdAt >= DateOf(GetFullYear(t), GetMonth(t), 1)
     /\ comments[c].createdAt < DateOf(GetFullYear(t), GetMonth(t), 32)}

RECURSIVE SumOfUserCounts(_, _)
\* The sum of the counts of the rows k..Len(rows) that have a reference.
SumOfUserCounts(rows, k) ==
  IF k > Len(rows) THEN 0
  ELSE (IF rows[k].reference = NoRef THEN 0 ELSE rows[k].count)
         + SumOfUserCounts(rows, k + 1)

\* C33: the row of a user carries the number of the root comments of the
\* window on the articles of that user, the row of the null reference the
\* number of all the root comments of the window, and the counts of the
\* users of a complete run do not add up to more than its platform count.
C33_RowCounts ==
  [][/\ \A task \in pending :
          (pending' = pending \ {task} /\ Len(stats') = Len(stats) + 1) =>
            stats'[Len(stats')].count =
              Cardinality({c \in RootsOfMonth(task.date) :
                             \/ task.reference = NoRef
                             \/ /\ comments[c].articleId \in DOMAIN articles
                                /\ articles[comments[c].articleId].userId.val
                                     = task.reference})
     /\ (pending # {} /\ pending' = {}) =>
          \A k \in DOMAIN stats' :
            (k > Len(stats') - Cardinality(RunReferences)
               /\ stats'[k].reference = NoRef) =>
              SumOfUserCounts(stats', Len(stats') - Cardinality(RunReferences) + 1)
                <= stats'[k].count]_vars

\* C34: the platform count of a run is the number of the root comments
\* created at any time of day 1 to day 31 of the month of the run; a comment
\* created before day 1 is not counted.
C34_WindowThroughDay31 ==
  [][\A task \in pending :
        (/\ pending' = pending \ {task}
         /\ Len(stats') = Len(stats) + 1
         /\ task.reference = NoRef) =>
          /\ stats'[Len(stats')].count >= Cardinality(RootsOfMonth(task.date))
          /\ stats'[Len(stats')].count
               <= Cardinality({c \in DOMAIN comments :
                    /\ comments[c].answerOf = NoComment
                    /\ comments[c].createdAt
                         >= DateOf(GetFullYear(task.date), GetMonth(task.date), 1)})]_vars

\* C36: a failure of the storage delete is not reported and does not keep
\* the record from being updated: a removeImage whose delete failed answers
\* with success and clears the image reference, and a saveImage that
\* replaces an image records the new reference.
C36_DeleteFailureNotSurfaced ==
  [][\A id \in Ids, user \in Users, type \in ImageTypes :
       articles[id][ImgKey(type)] # "" =>
         /\ RemoveImage(id, user, type, TRUE, FALSE) =>
              last'.result = "ok" /\ articles'[id][ImgKey(type)] = ""
         /\ \A upload \in Locations :
              SaveImage(id, user, type, upload, TRUE) =>
                last'.result = "ok" /\ articles'[id][ImgKey(type)] = upload]_vars

\* C35: every saveImage with a valid type and an existing article whose
\* upload is under way is eventually answered, and when it is answered with
\* success the article holds the new image reference.
C35_SaveImageCompletes ==
  \A id \in 1..NumArticles, type \in ImageTypes :
    (\E p \in pending : p.id = id /\ p.type = type)
      ~> (/\ last.op = "saveImage" /\ last.id = id /\ last.state = type
          /\ last.result \in {"ok", "uploadStream", "imageRequired"}
          /\ last.result = "ok" => articles[id][ImgKey(type)] \in Locations)

\* C37: when a changeState writes an article that another changeState with
\* the same wanted state has written since it read the article, it does not
\* report success, and the timestamp of that state stays as the first write
\* left it.
C37_OneWriterSucceeds ==
  [][\A p \in pending :
       (/\ "id" \in DOMAIN p
        /\ pending' = pending \ {p}
        /\ Served("changeState") /\ last'.id = p.id /\ last'.state = p.state
        /\ p.article.state # p.state
        /\ articles[p.id].state = p.state) =>
         /\ last'.result # "ok"
         /\ articles'[p.id][StateTimestamp(p.state)]
              = articles[p.id][StateTimestamp(p.state)]]_vars

\* C38: however the boost requests of an author interleave, the author
\* never has more than two boosted articles.
C38_AuthorBoostsAtMostTwo ==
  \A uid \in UserIds \ {"adm"} :
    Cardinality({i \in Ids : articles[i].userId.val = uid
                              /\ articles[i].state = "boosted"}) <= 2

\* C39: of the readComment requests for one unread comment that are in
\* flight together, the first to update sets readedAt to its value and
\* succeeds; each other one is answered with the already-read error and
\* leaves readedAt as the first one wrote it.
C39_OneReaderWins ==
  [][\A p \in pending :
       (pending' = pending \ {p} /\ Served("readComment")
        /\ p.id \in DOMAIN comments) =>
         IF comments[p.id].readedAt = Unset
           THEN /\ last'.result = "ok"
                /\ comments'[p.id].readedAt = p.readedAt
                /\ \A q \in pending' :
                     q.id = p.id => comments'[q.id].readedAt # Unset
           ELSE /\ last'.result = "alreadyRead"
                /\ comments' = comments]_vars

\* C39 witness: a request that took its value of readedAt before the value
\* the comment now holds was taken has been answered with the already-read
\* error: it was in flight when the other request wrote.
C39_Witness ==
  /\ last.op = "readComment" /\ last.result = "alreadyRead"
  /\ last.id \in DOMAIN comments
  /\ last.body.readedAt < comments[last.id].readedAt

\* C40: a changeState, changeStates or remove that is answered with an
\* error leaves every article as it was.
C40_RejectedChangesNothing ==
  [][((Served("changeState") \/ Served("changeStates") \/ Served("remove"))
        /\ last'.result # "ok")
       => articles' = articles]_vars

\* C40 witness: a remove has been answered with an error when an article
\* had already left the draft state.
C40_Witness ==
  /\ last.op = "remove" /\ last.result = "forbidden"
  /\ \E i \in Ids : articles[i].state # "draft"
  /\ articles[last.id].state # "removed"

====
